---------------------------- MODULE Spec2Model ----------------------------
(***************************************************************************)
(* A model of the goout interpreter (src/goout/parser.py, runtime.py):     *)
(* the statement parser over classified source lines, the expression       *)
(* tokenizer and recursive-descent evaluator over expression strings, the  *)
(* chained environment Env, and the statement executor run_ast as a        *)
(* machine with an explicit stack of run_ast activations.                  *)
(*                                                                         *)
(* Abstractions: a source line is the record of the groups its regular     *)
(* expression captures (the regular expressions themselves are not         *)
(* modelled); a Python float is the exact rational n/d; host exceptions    *)
(* are the name of their class.                                            *)
(*                                                                         *)
(* Where the code keeps an intermediate result in a local variable and     *)
(* reads it several times, the model binds it by value:                    *)
(* CHOOSE r \in {F(x) : x \in {e}} : TRUE is F(e) with e evaluated once.    *)
(***************************************************************************)
EXTENDS Integers, Sequences, FiniteSets, TLC

VARIABLES src, status, err, scopes, stack, out, last

vars == <<src, status, err, scopes, stack, out, last>>

-----------------------------------------------------------------------------
(* Characters.  Ascii lists the printable ASCII characters (the backquote  *)
(* left out) in code-point order, so the position of a character orders   *)
(* it as Python orders the characters of a str.                            *)

Ascii == " !\"#$%&'()*+,-./0123456789:;<=>?@ABCDEFGHIJKLMNOPQRSTUVWXYZ[\\]^_abcdefghijklmnopqrstuvwxyz{|}~"

Ord(c) == CHOOSE k \in 1..Len(Ascii) : SubSeq(Ascii, k, k) = c

Digits == {"0", "1", "2", "3", "4", "5", "6", "7", "8", "9"}

DigitVal(c) == Ord(c) - Ord("0")

IsSpace(c) == c = " "

IsDigit(c) == c \in Digits

IsIdStart(c) ==
    \/ Ord(c) >= Ord("a") /\ Ord(c) <= Ord("z")
    \/ Ord(c) >= Ord("A") /\ Ord(c) <= Ord("Z")
    \/ c = "_"

IsWordChar(c) == IsIdStart(c) \/ IsDigit(c)

At(s, k) == SubSeq(s, k, k)

RECURSIVE LStrip(_)
LStrip(s) == IF s # "" /\ IsSpace(Head(s)) THEN LStrip(Tail(s)) ELSE s

RECURSIVE RStrip(_)
RStrip(s) ==
    IF s # "" /\ IsSpace(At(s, Len(s))) THEN RStrip(SubSeq(s, 1, Len(s) - 1)) ELSE s

Strip(s) == RStrip(LStrip(s))

-----------------------------------------------------------------------------
(* Values: int, bool (a subclass of int), float (the exact rational n/d,   *)
(* d >= 1, in lowest terms) and str.                                       *)

Abs(n) == IF n < 0 THEN -n ELSE n

RECURSIVE Gcd(_, _)
Gcd(a, b) == IF b = 0 THEN a ELSE Gcd(b, a % b)

IntV(n) == [t |-> "int", n |-> n, d |-> 1, s |-> ""]

BoolV(b) == [t |-> "bool", n |-> IF b THEN 1 ELSE 0, d |-> 1, s |-> ""]

StrV(s) == [t |-> "str", n |-> 0, d |-> 1, s |-> s]

FloatV(n, d) ==
    LET g == Gcd(Abs(n), d)
    IN  [t |-> "float", n |-> n \div g, d |-> d \div g, s |-> ""]

IsStr(v) == v.t = "str"

IsInt(v) == v.t \in {"int", "bool"}

IsNum(v) == v.t \in {"int", "bool", "float"}

truthy(v) == IF IsStr(v) THEN v.s # "" ELSE v.n # 0

(* Exponentiation of ten, for decimal literals and float printing.         *)
RECURSIVE Pow10(_)
Pow10(k) == IF k = 0 THEN 1 ELSE 10 * Pow10(k - 1)

(* The first k digits of the fraction r/d (0 <= r < d), trailing zeros cut *)
RECURSIVE FracDigits(_, _, _)
FracDigits(r, d, k) ==
    IF r = 0 \/ k = 0 THEN ""
    ELSE ToString((10 * r) \div d) \o FracDigits((10 * r) % d, d, k - 1)

(* str(v): what print writes and what + concatenates.                      *)
PyStr(v) ==
    CASE v.t = "str" -> v.s
      [] v.t = "int" -> ToString(v.n)
      [] v.t = "bool" -> IF v.n = 1 THEN "True" ELSE "False"
      [] v.t = "float" ->
            LET a == Abs(v.n)
                f == FracDigits(a % v.d, v.d, 16)
            IN  (IF v.n < 0 THEN "-" ELSE "") \o ToString(a \div v.d) \o "."
                    \o (IF f = "" THEN "0" ELSE f)


-----------------------------------------------------------------------------
(* _tokenize: an expression string to its token list.  A token is the     *)
(* pair <<kind, text>>; positions are 1-based.                             *)

Tok(kind, text) == <<kind, text>>

TokOk(toks) == [err |-> "", msg |-> "", toks |-> toks]

TokFail(msg) == [err |-> "GoOutRuntimeError", msg |-> msg, toks |-> <<>>]

(* The index of the quote closing the literal scanned from j, 0 if none.   *)
RECURSIVE StrEnd(_, _, _)
StrEnd(s, j, esc) ==
    IF j > Len(s) THEN 0
    ELSE IF esc THEN StrEnd(s, j + 1, FALSE)
    ELSE IF At(s, j) = "\\" THEN StrEnd(s, j + 1, TRUE)
    ELSE IF At(s, j) = "\"" THEN j
    ELSE StrEnd(s, j + 1, FALSE)

(* The index after the number scanned from j.                              *)
RECURSIVE NumEnd(_, _, _)
NumEnd(s, j, dot_seen) ==
    IF j <= Len(s) /\ (IsDigit(At(s, j)) \/ (At(s, j) = "." /\ ~dot_seen))
    THEN NumEnd(s, j + 1, dot_seen \/ At(s, j) = ".")
    ELSE j

(* The index after the longest prefix of s from i that ID_RE matches; i    *)
(* itself when s[i] starts no identifier.                                  *)
RECURSIVE IdEnd(_, _, _)
IdEnd(s, i, j) ==
    IF j <= Len(s) /\ (IF j = i THEN IsIdStart(At(s, j)) ELSE IsWordChar(At(s, j)))
    THEN IdEnd(s, i, j + 1)
    ELSE j

TwoCharOps == {"||", "&&", "==", "!=", "<=", ">="}

OneCharOps == {"+", "-", "*", "/", "<", ">", "!"}

RECURSIVE TokFrom(_, _, _)
RECURSIVE TokAt(_, _, _)

(* the scanning loop at position i, acc the tokens appended so far         *)
TokFrom(s, i, acc) == CHOOSE toks \in {TokAt(s, pos, a) : pos \in {i}, a \in {acc}} : TRUE

TokAt(s, i, acc) ==
    IF i > Len(s) THEN TokOk(Append(acc, Tok("EOF", "")))
    ELSE LET ch == At(s, i) IN
      IF IsSpace(ch) THEN TokFrom(s, i + 1, acc)
      ELSE IF ch = "\"" THEN
          LET j == StrEnd(s, i + 1, FALSE) IN
          IF j = 0 THEN TokFail("unterminated string literal")
          ELSE TokFrom(s, j + 1, Append(acc, Tok("STRING", SubSeq(s, i, j))))
      ELSE IF ch = "(" THEN TokFrom(s, i + 1, Append(acc, Tok("LPAREN", ch)))
      ELSE IF ch = ")" THEN TokFrom(s, i + 1, Append(acc, Tok("RPAREN", ch)))
      ELSE IF i + 1 <= Len(s) /\ SubSeq(s, i, i + 1) \in TwoCharOps
          THEN TokFrom(s, i + 2, Append(acc, Tok("OP", SubSeq(s, i, i + 1))))
      ELSE IF ch \in OneCharOps THEN TokFrom(s, i + 1, Append(acc, Tok("OP", ch)))
      ELSE IF IsDigit(ch) THEN
          LET j == NumEnd(s, i + 1, FALSE) IN
          TokFrom(s, j, Append(acc, Tok("NUMBER", SubSeq(s, i, j - 1))))
      ELSE LET j == IdEnd(s, i, i) IN
          IF j > i THEN TokFrom(s, j, Append(acc, Tok("IDENT", SubSeq(s, i, j - 1))))
          ELSE TokFail("unknown token start")

tokenize(expr) == TokFrom(expr, 1, <<>>)

-----------------------------------------------------------------------------
(* Literals.                                                               *)

RECURSIVE DigitsVal(_, _)
DigitsVal(s, acc) ==
    IF s = "" THEN acc ELSE DigitsVal(Tail(s), 10 * acc + DigitVal(Head(s)))

RECURSIVE DotPos(_, _)
DotPos(s, k) ==
    IF k > Len(s) THEN 0 ELSE IF At(s, k) = "." THEN k ELSE DotPos(s, k + 1)

(* float(tok) if '.' in tok else int(tok)                                  *)
NumberLit(tok) ==
    LET p == DotPos(tok, 1) IN
    IF p = 0 THEN IntV(DigitsVal(tok, 0))
    ELSE LET whole == SubSeq(tok, 1, p - 1)
             frac  == SubSeq(tok, p + 1, Len(tok))
         IN  FloatV(DigitsVal(whole \o frac, 0), Pow10(Len(frac)))

(* The text of a string literal between its quotes, escapes replaced.      *)
RECURSIVE Unescape(_)
Unescape(s) ==
    IF s = "" THEN ""
    ELSE IF Head(s) = "\\" /\ Len(s) >= 2 THEN
        LET c == At(s, 2)
            r == CASE c = "n" -> "\n"
                   [] c = "t" -> "\t"
                   [] c = "\"" -> "\""
                   [] c = "\\" -> "\\"
                   [] c = "'" -> "'"
                   [] OTHER -> "\\" \o c
        IN  r \o Unescape(SubSeq(s, 3, Len(s)))
    ELSE Head(s) \o Unescape(Tail(s))

(* ast.literal_eval of a STRING token                                      *)
StringLit(tok) == StrV(Unescape(SubSeq(tok, 2, Len(tok) - 1)))

-----------------------------------------------------------------------------
(* Env: scopes is the sequence of the live Env objects; an Env is          *)
(* [vars, parent, funcs] with parent 0 for None.                           *)

NewEnv(parent) == [vars |-> <<>>, parent |-> parent, funcs |-> <<>>]

Has(sc, e, k) == k \in DOMAIN sc[e].vars

(* bool(env.parent): None is falsy, and so is an Env (a dict) without keys *)
ParentTruthy(sc, e) == sc[e].parent # 0 /\ DOMAIN sc[sc[e].parent].vars # {}

GetOk(v) == [ok |-> TRUE, v |-> v]

GetFail == [ok |-> FALSE, v |-> IntV(0)]

RECURSIVE EnvGet(_, _, _)
EnvGet(sc, e, k) ==
    IF Has(sc, e, k) THEN GetOk(sc[e].vars[k])
    ELSE IF ParentTruthy(sc, e) THEN EnvGet(sc, sc[e].parent, k)
    ELSE GetFail

Bind(f, k, v) == [x \in DOMAIN f \cup {k} |-> IF x = k THEN v ELSE f[x]]

(* env[name] = val                                                         *)
EnvDeclare(sc, e, k, v) == [sc EXCEPT ![e].vars = Bind(@, k, v)]

RECURSIVE SetFrom(_, _, _, _, _)
SetFrom(sc, self, scope, k, v) ==
    IF scope = 0 THEN EnvDeclare(sc, self, k, v)
    ELSE IF Has(sc, scope, k) THEN EnvDeclare(sc, scope, k, v)
    ELSE SetFrom(sc, self, sc[scope].parent, k, v)

(* EnvSet with the chain search left out: assign as declare                *)
EnvSetNoSearch(sc, e, k, v) == EnvDeclare(sc, e, k, v)

EnvSet(sc, e, k, v) == SetFrom(sc, e, e, k, v)


-----------------------------------------------------------------------------
(* The host's operators on values.  A result is [err, msg, v]: err is ""   *)
(* or the class of the exception raised.                                   *)

Val(v) == [err |-> "", msg |-> "", v |-> v]

Raise(kind, msg) == [err |-> kind, msg |-> msg, v |-> IntV(0)]

NumV(isFloat, n, d) == IF isFloat THEN FloatV(n, d) ELSE IntV(n \div d)

AnyFloat(a, b) == a.t = "float" \/ b.t = "float"

RECURSIVE Repeat(_, _)
Repeat(s, k) == IF k <= 0 THEN "" ELSE s \o Repeat(s, k - 1)

RECURSIVE StrLess(_, _)
StrLess(a, b) ==
    IF b = "" THEN FALSE
    ELSE IF a = "" THEN TRUE
    ELSE IF Head(a) = Head(b) THEN StrLess(Tail(a), Tail(b))
    ELSE Ord(Head(a)) < Ord(Head(b))

(* left == right                                                           *)
PyEq(a, b) ==
    IF IsStr(a) /\ IsStr(b) THEN a.s = b.s
    ELSE IF IsNum(a) /\ IsNum(b) THEN a.n * b.d = b.n * a.d
    ELSE FALSE

(* left < right, left <= right, left > right, left >= right                *)
PyCompare(op, a, b) ==
    IF IsNum(a) /\ IsNum(b) THEN
        LET x == a.n * b.d
            y == b.n * a.d
        IN  Val(BoolV(CASE op = "<" -> x < y
                        [] op = "<=" -> x <= y
                        [] op = ">" -> x > y
                        [] OTHER -> x >= y))
    ELSE IF IsStr(a) /\ IsStr(b) THEN
        Val(BoolV(CASE op = "<" -> StrLess(a.s, b.s)
                    [] op = "<=" -> ~StrLess(b.s, a.s)
                    [] op = ">" -> StrLess(b.s, a.s)
                    [] OTHER -> ~StrLess(a.s, b.s)))
    ELSE Raise("TypeError", "comparison not supported between these types")

(* left + right, with the str branch of parse_add                          *)
PyAdd(a, b) ==
    IF IsStr(a) \/ IsStr(b) THEN Val(StrV(PyStr(a) \o PyStr(b)))
    ELSE Val(NumV(AnyFloat(a, b), a.n * b.d + b.n * a.d, a.d * b.d))

(* left - right                                                            *)
PySub(a, b) ==
    IF IsNum(a) /\ IsNum(b)
    THEN Val(NumV(AnyFloat(a, b), a.n * b.d - b.n * a.d, a.d * b.d))
    ELSE Raise("TypeError", "unsupported operand types for -")

(* left * right: numbers multiply, a str is repeated by an int             *)
PyMul(a, b) ==
    IF IsNum(a) /\ IsNum(b) THEN Val(NumV(AnyFloat(a, b), a.n * b.n, a.d * b.d))
    ELSE IF IsStr(a) /\ IsInt(b) THEN Val(StrV(Repeat(a.s, b.n)))
    ELSE IF IsInt(a) /\ IsStr(b) THEN Val(StrV(Repeat(b.s, a.n)))
    ELSE Raise("TypeError", "unsupported operand types for *")

(* left / right: true division                                             *)
PyDiv(a, b) ==
    IF IsNum(a) /\ IsNum(b) THEN
        IF b.n = 0 THEN Raise("ZeroDivisionError", "division by zero")
        ELSE IF b.n < 0 THEN Val(FloatV(-(a.n * b.d), a.d * (-b.n)))
        ELSE Val(FloatV(a.n * b.d, a.d * b.n))
    ELSE Raise("TypeError", "unsupported operand types for /")

-----------------------------------------------------------------------------
(* eval_expr: the recursive-descent evaluator.  T is the token list, i the *)
(* position of _TokStream, sc and e the scopes and the Env evaluated in.   *)
(* A result is [err, msg, v, i].                                           *)

Ok(v, i) == [err |-> "", msg |-> "", v |-> v, i |-> i]

Fail(kind, msg) == [err |-> kind, msg |-> msg, v |-> IntV(0), i |-> 0]

IsOp(T, i, ops) == T[i][1] = "OP" /\ T[i][2] \in ops

(* A binary level of the grammar is a loop `left = next(); while an        *)
(* operator of the level follows: right = next(); left = left op right`.   *)
(* Here the loop is <level>_operand, which parses the next operand, and    *)
(* <level>_loop, which folds it into left and goes on while an operator of *)
(* the level follows.  left is NoLeft before the first operand.            *)

NoLeft == [some |-> FALSE, v |-> IntV(0), op |-> ""]

Left(v, op) == [some |-> TRUE, v |-> v, op |-> op]

RECURSIVE parse_or(_, _, _, _)
RECURSIVE or_operand(_, _, _, _, _)
RECURSIVE or_loop(_, _, _, _, _)
RECURSIVE parse_and(_, _, _, _)
RECURSIVE and_operand(_, _, _, _, _)
RECURSIVE and_loop(_, _, _, _, _)
RECURSIVE parse_equality(_, _, _, _)
RECURSIVE equality_operand(_, _, _, _, _)
RECURSIVE equality_loop(_, _, _, _, _)
RECURSIVE parse_compare(_, _, _, _)
RECURSIVE compare_operand(_, _, _, _, _)
RECURSIVE compare_loop(_, _, _, _, _)
RECURSIVE parse_add(_, _, _, _)
RECURSIVE add_operand(_, _, _, _, _)
RECURSIVE add_loop(_, _, _, _, _)
RECURSIVE parse_mul(_, _, _, _)
RECURSIVE mul_operand(_, _, _, _, _)
RECURSIVE mul_loop(_, _, _, _, _)
RECURSIVE parse_unary(_, _, _, _)
RECURSIVE parse_primary(_, _, _, _)

parse_expr(T, i, sc, e) == parse_or(T, i, sc, e)

(* "consume the right operand without evaluating it": it returns           *)
(* next_parser(), the operand as the next parser parsed and evaluated it   *)
skip_until_higher_prec(next_parser) == next_parser

(* The loop goes on with the value val (a result of a host operator) at    *)
(* position i when one of ops follows, and ends with it otherwise.         *)
More(T, i, ops, val) == val.err = "" /\ IsOp(T, i, ops)

Done(val, i) == IF val.err # "" THEN Fail(val.err, val.msg) ELSE Ok(val.v, i)

parse_or(T, i, sc, e) == or_operand(T, NoLeft, i, sc, e)

or_operand(T, left, i, sc, e) ==
    CHOOSE result \in
        {or_loop(T, l, right, sc, e) :
            l \in {left},
            right \in {IF left.some /\ truthy(left.v)
                       THEN skip_until_higher_prec(parse_and(T, i, sc, e))
                       ELSE parse_and(T, i, sc, e)}} : TRUE

OrValue(left, operand) ==
    IF ~left.some THEN Val(operand.v)
    ELSE IF truthy(left.v) THEN Val(BoolV(TRUE))
    ELSE Val(BoolV(truthy(operand.v)))

or_loop(T, left, operand, sc, e) ==
    IF operand.err # "" THEN operand
    ELSE IF More(T, operand.i, {"||"}, OrValue(left, operand))
    THEN or_operand(T, Left(OrValue(left, operand).v, "||"), operand.i + 1, sc, e)
    ELSE Done(OrValue(left, operand), operand.i)

parse_and(T, i, sc, e) == and_operand(T, NoLeft, i, sc, e)

and_operand(T, left, i, sc, e) ==
    CHOOSE result \in
        {and_loop(T, l, right, sc, e) :
            l \in {left},
            right \in {IF left.some /\ ~truthy(left.v)
                       THEN skip_until_higher_prec(parse_equality(T, i, sc, e))
                       ELSE parse_equality(T, i, sc, e)}} : TRUE

AndValue(left, operand) ==
    IF ~left.some THEN Val(operand.v)
    ELSE IF ~truthy(left.v) THEN Val(BoolV(FALSE))
    ELSE Val(BoolV(truthy(operand.v)))

and_loop(T, left, operand, sc, e) ==
    IF operand.err # "" THEN operand
    ELSE IF More(T, operand.i, {"&&"}, AndValue(left, operand))
    THEN and_operand(T, Left(AndValue(left, operand).v, "&&"), operand.i + 1, sc, e)
    ELSE Done(AndValue(left, operand), operand.i)

parse_equality(T, i, sc, e) == equality_operand(T, NoLeft, i, sc, e)

equality_operand(T, left, i, sc, e) ==
    CHOOSE result \in
        {equality_loop(T, l, right, sc, e) :
            l \in {left}, right \in {parse_compare(T, i, sc, e)}} : TRUE

EqualityValue(left, operand) ==
    IF ~left.some THEN Val(operand.v)
    ELSE IF left.op = "==" THEN Val(BoolV(PyEq(left.v, operand.v)))
    ELSE Val(BoolV(~PyEq(left.v, operand.v)))

equality_loop(T, left, operand, sc, e) ==
    IF operand.err # "" THEN operand
    ELSE IF More(T, operand.i, {"==", "!="}, EqualityValue(left, operand))
    THEN equality_operand(T, Left(EqualityValue(left, operand).v, T[operand.i][2]),
                          operand.i + 1, sc, e)
    ELSE Done(EqualityValue(left, operand), operand.i)

parse_compare(T, i, sc, e) == compare_operand(T, NoLeft, i, sc, e)

compare_operand(T, left, i, sc, e) ==
    CHOOSE result \in
        {compare_loop(T, l, right, sc, e) :
            l \in {left}, right \in {parse_add(T, i, sc, e)}} : TRUE

CompareValue(left, operand) ==
    IF ~left.some THEN Val(operand.v) ELSE PyCompare(left.op, left.v, operand.v)

compare_loop(T, left, operand, sc, e) ==
    IF operand.err # "" THEN operand
    ELSE IF More(T, operand.i, {"<", "<=", ">", ">="}, CompareValue(left, operand))
    THEN compare_operand(T, Left(CompareValue(left, operand).v, T[operand.i][2]),
                         operand.i + 1, sc, e)
    ELSE Done(CompareValue(left, operand), operand.i)

parse_add(T, i, sc, e) == add_operand(T, NoLeft, i, sc, e)

add_operand(T, left, i, sc, e) ==
    CHOOSE result \in
        {add_loop(T, l, right, sc, e) :
            l \in {left}, right \in {parse_mul(T, i, sc, e)}} : TRUE

AddValue(left, operand) ==
    IF ~left.some THEN Val(operand.v)
    ELSE IF left.op = "+" THEN PyAdd(left.v, operand.v)
    ELSE PySub(left.v, operand.v)

add_loop(T, left, operand, sc, e) ==
    IF operand.err # "" THEN operand
    ELSE IF More(T, operand.i, {"+", "-"}, AddValue(left, operand))
    THEN add_operand(T, Left(AddValue(left, operand).v, T[operand.i][2]),
                     operand.i + 1, sc, e)
    ELSE Done(AddValue(left, operand), operand.i)

parse_mul(T, i, sc, e) == mul_operand(T, NoLeft, i, sc, e)

mul_operand(T, left, i, sc, e) ==
    CHOOSE result \in
        {mul_loop(T, l, right, sc, e) :
            l \in {left}, right \in {parse_unary(T, i, sc, e)}} : TRUE

MulValue(left, operand) ==
    IF ~left.some THEN Val(operand.v)
    ELSE IF left.op = "*" THEN PyMul(left.v, operand.v)
    ELSE PyDiv(left.v, operand.v)

mul_loop(T, left, operand, sc, e) ==
    IF operand.err # "" THEN operand
    ELSE IF More(T, operand.i, {"*", "/"}, MulValue(left, operand))
    THEN mul_operand(T, Left(MulValue(left, operand).v, T[operand.i][2]),
                     operand.i + 1, sc, e)
    ELSE Done(MulValue(left, operand), operand.i)

Unary(op, val) ==
    IF val.err # "" THEN val
    ELSE IF op = "!" THEN Ok(BoolV(~truthy(val.v)), val.i)
    ELSE IF IsNum(val.v) THEN Ok(NumV(val.v.t = "float", -val.v.n, val.v.d), val.i)
    ELSE Fail("GoOutRuntimeError", "unary minus needs a number")

parse_unary(T, i, sc, e) ==
    IF IsOp(T, i, {"!", "-"}) THEN Unary(T[i][2], parse_unary(T, i + 1, sc, e))
    ELSE parse_primary(T, i, sc, e)

(* ts.expect("RPAREN") after the parenthesised expression v                *)
ExpectRParen(T, v) ==
    IF v.err # "" THEN v
    ELSE IF T[v.i][1] # "RPAREN" THEN Fail("GoOutRuntimeError", "')' expected")
    ELSE Ok(v.v, v.i + 1)

(* env.get(name) at an identifier                                          *)
Lookup(g, name, i) ==
    IF g.ok THEN Ok(g.v, i + 1) ELSE Fail("GoOutRuntimeError", "undefined variable " \o name)

parse_primary(T, i, sc, e) ==
    IF T[i][1] = "LPAREN" THEN ExpectRParen(T, parse_expr(T, i + 1, sc, e))
    ELSE IF T[i][1] = "STRING" THEN Ok(StringLit(T[i][2]), i + 1)
    ELSE IF T[i][1] = "NUMBER" THEN Ok(NumberLit(T[i][2]), i + 1)
    ELSE IF T[i][1] = "IDENT" THEN Lookup(EnvGet(sc, e, T[i][2]), T[i][2], i)
    ELSE Fail("GoOutRuntimeError", "expression expected")

(* the end of eval_expr: the result, unless tokens are left over           *)
EvalEnd(T, result) ==
    IF result.err # "" THEN Raise(result.err, result.msg)
    ELSE IF T[result.i][1] # "EOF"
    THEN Raise("GoOutRuntimeError", "trailing tokens after the expression")
    ELSE Val(result.v)

EvalTokens(ts, sc, e) ==
    IF ts.err # "" THEN Raise(ts.err, ts.msg)
    ELSE CHOOSE result \in
            {EvalEnd(ts.toks, parsed) : parsed \in {parse_expr(ts.toks, 1, sc, e)}} : TRUE

eval_expr(expr, sc, e) ==
    CHOOSE result \in {EvalTokens(ts, sc, e) : ts \in {tokenize(expr)}} : TRUE

-----------------------------------------------------------------------------
(* parse_program.  A source line is the record of what the line's regular  *)
(* expression captures:                                                    *)
(*   [k |-> "start"], [k |-> "end"], [k |-> "blank"], [k |-> "other"]      *)
(*   [k |-> "close"]                       }                               *)
(*   [k |-> "split", rest |-> line]        } followed by more text         *)
(*   [k |-> "open"]                        {                               *)
(*   [k |-> "if", cond |-> e]              if (e) {                        *)
(*   [k |-> "else"]                        else {                          *)
(*   [k |-> "for", var |-> v, args |-> t]  repeat<v>(t) {                  *)
(*   [k |-> "def", name |-> f, params |-> t]   function f(t) {             *)
(*   [k |-> "print", expr |-> e]           print(e)                        *)
(*   [k |-> "input", name |-> v, rest |-> t]   input(v, t)                 *)
(*   [k |-> "call", name |-> f, rest |-> t]    call(f, t)                  *)
(*   [k |-> "assign", is_decl |-> b, name |-> v, expr |-> e]               *)
(* A statement is a record with the fields of the tuple the parser builds. *)

RECURSIVE SplitFrom(_, _, _, _, _)
SplitFrom(s, outp, buf, in_str, esc) ==
    IF s = "" THEN (IF Strip(buf) # "" THEN Append(outp, Strip(buf)) ELSE outp)
    ELSE LET ch == Head(s) IN
      IF in_str THEN
          IF esc THEN SplitFrom(Tail(s), outp, buf \o ch, TRUE, FALSE)
          ELSE IF ch = "\\" THEN SplitFrom(Tail(s), outp, buf \o ch, TRUE, TRUE)
          ELSE IF ch = "\"" THEN SplitFrom(Tail(s), outp, buf \o ch, FALSE, FALSE)
          ELSE SplitFrom(Tail(s), outp, buf \o ch, TRUE, FALSE)
      ELSE IF ch = "\"" THEN SplitFrom(Tail(s), outp, buf \o ch, TRUE, esc)
      ELSE IF ch = "," THEN SplitFrom(Tail(s), Append(outp, Strip(buf)), "", FALSE, esc)
      ELSE SplitFrom(Tail(s), outp, buf \o ch, FALSE, esc)

split_commas(s) == SplitFrom(s, <<>>, "", FALSE, FALSE)

POk(stmts, i, body) == [err |-> "", msg |-> "", stmts |-> stmts, i |-> i, body |-> body]

PFail(msg) == [err |-> "GoOutSyntaxError", msg |-> msg, stmts |-> <<>>, i |-> 0, body |-> <<>>]

InsertAt(body, i, a, b) ==
    SubSeq(body, 1, i - 1) \o <<a, b>> \o SubSeq(body, i + 1, Len(body))

RECURSIVE block_loop(_, _, _)
RECURSIVE block_line(_, _, _)

(* parse_block from line i of body; the result carries the body, which    *)
(* the split of a "} text" line changes, and the index reached.            *)
parse_block(body, i) == block_loop(body, i, <<>>)

(* the while loop of parse_block at line i, stmts the statements so far    *)
block_loop(body, i, stmts) ==
    CHOOSE result \in
        {block_line(b, pos, st) : b \in {body}, pos \in {i}, st \in {stmts}} : TRUE

block_line(body, i, stmts) ==
    IF i > Len(body) THEN POk(stmts, i, body)
    ELSE LET line == body[i] IN
      CASE line.k = "split" ->
              POk(stmts, i + 1, InsertAt(body, i, [k |-> "close"], line.rest))
        [] line.k = "close" -> POk(stmts, i + 1, body)
        [] line.k = "blank" -> block_loop(body, i + 1, stmts)
        [] line.k = "if" ->
              CHOOSE result \in
                {IF then_b.err # "" THEN then_b
                 ELSE IF then_b.i <= Len(then_b.body) /\ then_b.body[then_b.i].k = "else" THEN
                   CHOOSE with_else \in
                     {IF else_b.err # "" THEN else_b
                      ELSE block_loop(else_b.body, else_b.i,
                              Append(stmts, [kind |-> "if", cond |-> Strip(line.cond),
                                             then_body |-> then_b.stmts,
                                             has_else |-> TRUE, else_body |-> else_b.stmts])) :
                      else_b \in {parse_block(then_b.body, then_b.i + 1)}} : TRUE
                 ELSE block_loop(then_b.body, then_b.i,
                         Append(stmts, [kind |-> "if", cond |-> Strip(line.cond),
                                        then_body |-> then_b.stmts,
                                        has_else |-> FALSE, else_body |-> <<>>])) :
                 then_b \in {parse_block(body, i + 1)}} : TRUE
        [] line.k = "for" ->
              LET args == split_commas(line.args) IN
              IF Len(args) # 2 THEN PFail("repeat needs the 2 arguments (start, end)")
              ELSE CHOOSE result \in
                     {IF inner.err # "" THEN inner
                      ELSE block_loop(inner.body, inner.i,
                              Append(stmts, [kind |-> "for", var |-> line.var,
                                             start_e |-> args[1], end_e |-> args[2],
                                             body |-> inner.stmts])) :
                      inner \in {parse_block(body, i + 1)}} : TRUE
        [] line.k = "def" ->
              LET ps == split_commas(line.params)
                  params == IF Len(ps) = 1 /\ ps[1] = "" THEN <<>> ELSE ps
              IN  CHOOSE result \in
                    {IF inner.err # "" THEN inner
                     ELSE block_loop(inner.body, inner.i,
                             Append(stmts, [kind |-> "def", fname |-> line.name,
                                            params |-> params, body |-> inner.stmts])) :
                     inner \in {parse_block(body, i + 1)}} : TRUE
        [] line.k = "print" ->
              block_loop(body, i + 1,
                  Append(stmts, [kind |-> "print", expr |-> Strip(line.expr)]))
        [] line.k = "input" ->
              block_loop(body, i + 1,
                  Append(stmts, [kind |-> "input", name |-> line.name,
                                 args |-> IF Strip(line.rest) # ""
                                          THEN split_commas(Strip(line.rest)) ELSE <<>>]))
        [] line.k = "call" ->
              block_loop(body, i + 1,
                  Append(stmts, [kind |-> "call", fname |-> line.name,
                                 args |-> IF Strip(line.rest) # ""
                                          THEN split_commas(Strip(line.rest)) ELSE <<>>]))
        [] line.k = "assign" ->
              block_loop(body, i + 1,
                  Append(stmts, [kind |-> "assign", name |-> line.name,
                                 expr |-> Strip(line.expr), is_decl |-> line.is_decl]))
        [] line.k = "open" ->
              CHOOSE result \in
                {IF inner.err # "" THEN inner
                 ELSE block_loop(inner.body, inner.i,
                         Append(stmts, [kind |-> "block", body |-> inner.stmts])) :
                 inner \in {parse_block(body, i + 1)}} : TRUE
        [] OTHER -> PFail("unknown syntax")

NonBlank(lines) == {k \in 1..Len(lines) : lines[k].k # "blank"}

Min(S) == CHOOSE x \in S : \A y \in S : x <= y

Max(S) == CHOOSE x \in S : \A y \in S : x >= y

parse_program(lines) ==
    LET nz == NonBlank(lines) IN
    IF nz = {} THEN PFail("empty program")
    ELSE IF lines[Min(nz)].k # "start" THEN PFail("the program must begin with the start marker")
    ELSE IF lines[Max(nz)].k # "end" THEN PFail("the program must end with the end marker")
    ELSE CHOOSE result \in
           {IF ast.err # "" THEN ast
            ELSE IF ast.i <= Len(ast.body) THEN PFail("block consistency error")
            ELSE ast :
            ast \in {parse_block(SubSeq(lines, Min(nz) + 1, Max(nz) - 1), 1)}} : TRUE


-----------------------------------------------------------------------------
(* run_ast as a machine.  stack holds the activations: a frame             *)
(*   [k |-> "run", stmts, pc, env, own, of]   is one run_ast(stmts, env),  *)
(*       at statement pc; own says that env was created for it (and is     *)
(*       dropped when it returns); of is the statement that made it;       *)
(*   [k |-> "for", var, body, i, hi, env, lo, seen]   is the Python loop   *)
(*       `for i in range(start, end)` of a for statement: i is the next    *)
(*       value of the range, seen the values the loop variable was bound   *)
(*       to so far.                                                        *)
(* last records the step just taken, with the scopes before it.            *)

Top == stack[Len(stack)]

Running == status = "run" /\ Len(stack) > 0

AtStmt(kind) ==
    /\ Running
    /\ Top.k = "run"
    /\ Top.pc <= Len(Top.stmts)
    /\ Top.stmts[Top.pc].kind = kind

Stmt == Top.stmts[Top.pc]

Advance == [stack EXCEPT ![Len(stack)].pc = @ + 1]

RunFrame(stmts, env, own, of) ==
    [k |-> "run", stmts |-> stmts, pc |-> 1, env |-> env, own |-> own, of |-> of]

NoErr == [kind |-> "", msg |-> ""]

(* An exception leaves run_ast: nothing after it runs.                     *)
Abort(kind, msg) ==
    /\ status' = "error"
    /\ err' = [kind |-> kind, msg |-> msg]
    /\ UNCHANGED <<src, scopes, stack, out>>

(* run_source: parse, then run the tree against a fresh root Env           *)
RunSource ==
    /\ status = "init"
    /\ \E p \in {parse_program(src)} :
       IF p.err # ""
       THEN /\ status' = "error"
            /\ err' = [kind |-> p.err, msg |-> p.msg]
            /\ UNCHANGED <<scopes, stack>>
       ELSE /\ status' = "run"
            /\ scopes' = <<NewEnv(0)>>
            /\ stack' = <<RunFrame(p.stmts, 1, FALSE, "top")>>
            /\ err' = NoErr
    /\ last' = [k |-> "parse"]
    /\ UNCHANGED <<src, out>>

ExecPrint ==
    /\ AtStmt("print")
    /\ LET val == eval_expr(Stmt.expr, scopes, Top.env) IN
       /\ last' = [k |-> "print", expr |-> Stmt.expr, env |-> Top.env, pre |-> scopes,
                   res |-> val]
       /\ IF val.err # "" THEN Abort(val.err, val.msg)
          ELSE /\ out' = Append(out, PyStr(val.v))
               /\ stack' = Advance
               /\ UNCHANGED <<src, status, err, scopes>>

ExecAssign ==
    /\ AtStmt("assign")
    /\ LET val == eval_expr(Stmt.expr, scopes, Top.env) IN
       /\ last' = [k |-> "assign", name |-> Stmt.name, is_decl |-> Stmt.is_decl,
                   expr |-> Stmt.expr, env |-> Top.env, pre |-> scopes, res |-> val]
       /\ IF val.err # "" THEN Abort(val.err, val.msg)
          ELSE /\ scopes' = IF Stmt.is_decl
                            THEN EnvDeclare(scopes, Top.env, Stmt.name, val.v)
                            ELSE EnvSet(scopes, Top.env, Stmt.name, val.v)
               /\ stack' = Advance
               /\ UNCHANGED <<src, status, err, out>>

ForFrame(var, body, lo, hi, env) ==
    [k |-> "for", var |-> var, body |-> body, i |-> lo, hi |-> hi, env |-> env,
     lo |-> lo, seen |-> <<>>]

(* the for statement up to its loop: both bounds evaluated, then checked   *)
ExecFor ==
    /\ AtStmt("for")
    /\ LET start == eval_expr(Stmt.start_e, scopes, Top.env)
           end == eval_expr(Stmt.end_e, scopes, Top.env)
       IN
       /\ last' = [k |-> "for", env |-> Top.env, pre |-> scopes]
       /\ IF start.err # "" THEN Abort(start.err, start.msg)
          ELSE IF end.err # "" THEN Abort(end.err, end.msg)
          ELSE IF ~(IsInt(start.v) /\ IsInt(end.v))
               THEN Abort("GoOutRuntimeError", "loop bounds must be integers")
          ELSE /\ stack' = Append(Advance,
                               ForFrame(Stmt.var, Stmt.body, start.v.n, end.v.n, Top.env))
               /\ UNCHANGED <<src, status, err, scopes, out>>

(* RangeHasNext with the end bound included                                *)
RangeHasNextInclusive(f) == f.i <= f.hi

(* range(start, end) yields its next value to the loop                     *)
RangeHasNext(f) == f.i < f.hi

(* one iteration begins: a fresh Env, the loop variable, the body          *)
ForIter ==
    /\ Running
    /\ Top.k = "for"
    /\ RangeHasNext(Top)
    /\ LET local == Len(scopes) + 1 IN
       /\ scopes' = EnvDeclare(Append(scopes, NewEnv(Top.env)), local, Top.var, IntV(Top.i))
       /\ stack' = Append([stack EXCEPT ![Len(stack)].i = @ + 1,
                                        ![Len(stack)].seen = Append(@, Top.i)],
                          RunFrame(Top.body, local, TRUE, "for"))
    /\ last' = [k |-> "iter", env |-> Top.env, pre |-> scopes]
    /\ UNCHANGED <<src, status, err, out>>

(* the range is exhausted: the for statement is over                       *)
ForExit ==
    /\ Running
    /\ Top.k = "for"
    /\ ~RangeHasNext(Top)
    /\ stack' = SubSeq(stack, 1, Len(stack) - 1)
    /\ last' = [k |-> "forexit", lo |-> Top.lo, hi |-> Top.hi, seen |-> Top.seen,
                env |-> Top.env, pre |-> scopes]
    /\ UNCHANGED <<src, status, err, scopes, out>>

ExecDef ==
    /\ AtStmt("def")
    /\ scopes' = [scopes EXCEPT ![Top.env].funcs =
                      Bind(@, Stmt.fname, [params |-> Stmt.params, body |-> Stmt.body])]
    /\ stack' = Advance
    /\ last' = [k |-> "def", fname |-> Stmt.fname, env |-> Top.env, pre |-> scopes]
    /\ UNCHANGED <<src, status, err, out>>

NoFunc == [found |-> FALSE, params |-> <<>>, body |-> <<>>]

(* FindFunc with the lookup chained through the parents, as Env.get is     *)
RECURSIVE FindFuncChained(_, _, _)
FindFuncChained(sc, e, fname) ==
    IF fname \in DOMAIN sc[e].funcs
    THEN [found |-> TRUE, params |-> sc[e].funcs[fname].params,
          body |-> sc[e].funcs[fname].body]
    ELSE IF sc[e].parent # 0 THEN FindFuncChained(sc, sc[e].parent, fname)
    ELSE NoFunc

(* `fname in env.funcs`, then env.funcs[fname]: the table of env alone     *)
FindFunc(sc, e, fname) ==
    IF fname \in DOMAIN sc[e].funcs
    THEN [found |-> TRUE, params |-> sc[e].funcs[fname].params,
          body |-> sc[e].funcs[fname].body]
    ELSE NoFunc

(* CallEnv with the caller's function table copied into the frame          *)
CallEnvInherit(sc, env) == [NewEnv(env) EXCEPT !.funcs = sc[env].funcs]

(* local = Env(parent=env) of a call                                       *)
CallEnv(sc, env) == NewEnv(env)

(* for p, a in zip(params, args): local[p] = eval_expr(a, env), from the   *)
(* k-th pair on.  The result is [err, msg, sc].                            *)
RECURSIVE BindArgs(_, _, _, _, _, _)
BindArgs(sc, local, env, params, args, k) ==
    IF k > Len(params) \/ k > Len(args) THEN [err |-> "", msg |-> "", sc |-> sc]
    ELSE LET v == eval_expr(args[k], sc, env) IN
         IF v.err # "" THEN [err |-> v.err, msg |-> v.msg, sc |-> sc]
         ELSE BindArgs(EnvDeclare(sc, local, params[k], v.v), local, env, params, args, k + 1)

ExecCall ==
    /\ AtStmt("call")
    /\ last' = [k |-> "call", fname |-> Stmt.fname, args |-> Stmt.args, env |-> Top.env,
                pre |-> scopes]
    /\ LET f == FindFunc(scopes, Top.env, Stmt.fname) IN
       IF ~f.found
       THEN Abort("GoOutRuntimeError", "function not defined")
       ELSE IF Len(f.params) # Len(Stmt.args)
            THEN Abort("GoOutRuntimeError", "argument count mismatch")
            ELSE LET local == Len(scopes) + 1
                     b == BindArgs(Append(scopes, CallEnv(scopes, Top.env)), local, Top.env,
                                   f.params, Stmt.args, 1)
                 IN  IF b.err # "" THEN Abort(b.err, b.msg)
                     ELSE /\ scopes' = b.sc
                          /\ stack' = Append(Advance, RunFrame(f.body, local, TRUE, "call"))
                          /\ UNCHANGED <<src, status, err, out>>

ExecIf ==
    /\ AtStmt("if")
    /\ LET c == eval_expr(Stmt.cond, scopes, Top.env) IN
       /\ last' = [k |-> "if", env |-> Top.env, pre |-> scopes, res |-> c]
       /\ IF c.err # "" THEN Abort(c.err, c.msg)
          ELSE /\ stack' = IF truthy(c.v)
                           THEN Append(Advance, RunFrame(Stmt.then_body, Top.env, FALSE, "if"))
                           ELSE IF Stmt.has_else /\ Stmt.else_body # <<>>
                           THEN Append(Advance, RunFrame(Stmt.else_body, Top.env, FALSE, "if"))
                           ELSE Advance
               /\ UNCHANGED <<src, status, err, scopes, out>>

ExecBlock ==
    /\ AtStmt("block")
    /\ scopes' = Append(scopes, NewEnv(Top.env))
    /\ stack' = Append(Advance, RunFrame(Stmt.body, Len(scopes) + 1, TRUE, "block"))
    /\ last' = [k |-> "block", env |-> Top.env, pre |-> scopes]
    /\ UNCHANGED <<src, status, err, out>>

StmtKinds == {"print", "assign", "for", "def", "call", "if", "block"}

(* the final else of run_ast: any other statement, "input" among them      *)
ExecOther ==
    /\ Running
    /\ Top.k = "run"
    /\ Top.pc <= Len(Top.stmts)
    /\ Stmt.kind \notin StmtKinds
    /\ last' = [k |-> Stmt.kind, name |-> Stmt.name, env |-> Top.env, pre |-> scopes]
    /\ Abort("GoOutRuntimeError", "unknown statement type")

(* a nested run_ast returns to the statement that called it                *)
Return ==
    /\ Running
    /\ Top.k = "run"
    /\ Top.pc > Len(Top.stmts)
    /\ Len(stack) > 1
    /\ stack' = SubSeq(stack, 1, Len(stack) - 1)
    /\ scopes' = IF Top.own THEN SubSeq(scopes, 1, Len(scopes) - 1) ELSE scopes
    /\ last' = [k |-> "return", of |-> Top.of, env |-> Top.env, pre |-> scopes]
    /\ UNCHANGED <<src, status, err, out>>

(* the top-level run_ast returns: run_source is over                       *)
Finish ==
    /\ Running
    /\ Top.k = "run"
    /\ Top.pc > Len(Top.stmts)
    /\ Len(stack) = 1
    /\ status' = "done"
    /\ last' = [k |-> "finish"]
    /\ UNCHANGED <<src, err, scopes, stack, out>>


-----------------------------------------------------------------------------
(* The programs run.                                                       *)

LStart == [k |-> "start"]
LEnd == [k |-> "end"]
LBlank == [k |-> "blank"]
LOpen == [k |-> "open"]
LClose == [k |-> "close"]
LElse == [k |-> "else"]
LSplit(rest) == [k |-> "split", rest |-> rest]
LPrint(e) == [k |-> "print", expr |-> e]
LDecl(n, e) == [k |-> "assign", is_decl |-> TRUE, name |-> n, expr |-> e]
LAssign(n, e) == [k |-> "assign", is_decl |-> FALSE, name |-> n, expr |-> e]
LFor(v, a) == [k |-> "for", var |-> v, args |-> a]
LDef(f, ps) == [k |-> "def", name |-> f, params |-> ps]
LCall(f, rest) == [k |-> "call", name |-> f, rest |-> rest]
LIf(c) == [k |-> "if", cond |-> c]
LInput(n, rest) == [k |-> "input", name |-> n, rest |-> rest]

(* Named programs: the cases the interpreter's description works through.  *)
PDeclareAssign ==
    <<LDecl("x", "5"), LPrint("x"), LAssign("x", "x + 1"), LPrint("x")>>

PLoop ==
    <<LFor("i", "0, 3"), LPrint("i"), LClose, LFor("i", "2,2"), LPrint("i"), LClose>>

PLoopAssign ==
    <<LDecl("n", "3"), LFor("i", "0, n"), LPrint("i"), LAssign("i", "7"),
      LAssign("n", "0"), LClose, LPrint("n")>>

PAndSkip == <<LDecl("ok", "1 == 2"), LPrint("ok && (1/0 == 1)")>>

POrSkip == <<LDecl("t", "1 == 1"), LPrint("t || (1/0 == 1)")>>

PCallInFor ==
    <<LDef("f", ""), LPrint("1"), LClose, LFor("i", "0, 1"), LCall("f", ""), LClose>>

PCallInIf ==
    <<LDef("f", ""), LPrint("1"), LClose, LIf("1 == 1"), LCall("f", ""), LClose>>

PReadThroughBlock ==
    <<LDecl("x", "1"), LOpen, LFor("i", "0, 1"), LPrint("x"), LClose, LClose>>

PReadInCall ==
    <<LDecl("x", "1"), LOpen, LDef("f", ""), LPrint("x"), LClose, LCall("f", ""), LClose>>

PCallFrame ==
    <<LDecl("x", "1"), LDef("f", "a, b"), LAssign("x", "a + b"), LDecl("y", "a"),
      LAssign("z", "3"), LPrint("x + y + z"), LClose, LCall("f", "x + 1, 2 * x"),
      LPrint("x"), LPrint("y")>>

PArgCount == <<LDef("f", "a"), LPrint("a"), LClose, LCall("f", "")>>

PInput == <<LDecl("x", "1"), LOpen, LInput("x", "\"n? \", \"int\""), LPrint("x"), LClose>>

PUnclosed == <<LPrint("1"), LOpen, LPrint("2")>>

PTypes ==
    <<LIf("1 == 2"), LPrint("\"a\" - 1"), LSplit(LElse), LPrint("\"a\" + 1"),
      LPrint("\"a\" * 2"), LPrint("7 / 2"), LPrint("\"a\" < 1"), LClose>>

PBounds == <<LFor("i", "0, 3 / 2"), LPrint("i"), LClose>>

PNestedDef ==
    <<LDef("f", ""), LDef("g", ""), LPrint("2"), LClose, LCall("g", ""), LCall("f", ""),
      LClose, LBlank, LCall("f", "")>>

PShadow ==
    <<LDecl("x", "1"), LOpen, LDecl("x", "2"), LOpen, LAssign("x", "x + 1"),
      LAssign("y", "3"), LPrint("x + y"), LClose, LPrint("x"), LClose, LPrint("x")>>

PStray == <<LPrint("1"), LClose, LPrint("2")>>

PAssignThroughEmpty ==
    <<LDecl("x", "1"), LOpen, LOpen, LAssign("x", "2"), LAssign("w", "3"), LClose, LClose,
      LPrint("x")>>

Named ==
    <<PDeclareAssign, PLoop, PLoopAssign, PAndSkip, POrSkip, PCallInFor, PCallInIf,
      PReadThroughBlock, PReadInCall, PCallFrame, PArgCount, PInput, PUnclosed, PTypes,
      PBounds, PNestedDef, PShadow, PStray, PAssignThroughEmpty>>

(* Generated programs: every sequence of at most MaxProgLen pieces.        *)
MaxProgLen == 3

Pieces ==
    <<  <<LDecl("x", "1")>>,
        <<LAssign("x", "x + 1")>>,
        <<LPrint("x")>>,
        <<LOpen>>,
        <<LClose>>,
        <<LFor("i", "x, 3")>>,
        <<LDef("f", "a"), LAssign("x", "a"), LAssign("y", "x"), LClose>>,
        <<LCall("f", "x + 1")>>,
        <<LIf("x == 1")>>,
        <<LInput("y", "")>>  >>

RECURSIVE Concat(_, _)
Concat(choice, k) ==
    IF k > Len(choice) THEN <<>> ELSE Pieces[choice[k]] \o Concat(choice, k + 1)

Program(body) == <<LStart>> \o body \o <<LEnd>>

Init ==
    /\ \/ \E n \in 1..Len(Named) : src = Program(Named[n])
       \/ \E len \in 0..MaxProgLen :
            \E choice \in [1..len -> 1..Len(Pieces)] : src = Program(Concat(choice, 1))
       \/ src \in {<<>>, <<LBlank, LStart>>, <<LPrint("1"), LEnd>>}
    /\ status = "init"
    /\ err = NoErr
    /\ scopes = <<>>
    /\ stack = <<>>
    /\ out = <<>>
    /\ last = [k |-> "none"]

Next ==
    \/ RunSource
    \/ ExecPrint
    \/ ExecAssign
    \/ ExecFor
    \/ ForIter
    \/ ForExit
    \/ ExecDef
    \/ ExecCall
    \/ ExecIf
    \/ ExecBlock
    \/ ExecOther
    \/ Return
    \/ Finish

Spec == Init /\ [][Next]_vars

(* The interpreter is one thread that runs until run_source returns or     *)
(* raises: a step that can be taken is taken.                              *)
FairSpec == Spec /\ WF_vars(Next)


-----------------------------------------------------------------------------
(* What the properties below are stated with.                              *)

Halted == status \in {"done", "error"}

(* The scopes from e out to the root.                                      *)
RECURSIVE ChainOf(_, _)
ChainOf(sc, e) == IF e = 0 THEN <<>> ELSE <<e>> \o ChainOf(sc, sc[e].parent)

(* The positions on the chain of e of the scopes that bind k.              *)
Holders(sc, e, k) == {j \in 1..Len(ChainOf(sc, e)) : Has(sc, ChainOf(sc, e)[j], k)}

(* The innermost binding of k on the chain of e, if any.                   *)
Innermost(sc, e, k) ==
    IF Holders(sc, e, k) = {} THEN GetFail
    ELSE GetOk(sc[ChainOf(sc, e)[Min(Holders(sc, e, k))]].vars[k])

VarNames(sc) == UNION {DOMAIN sc[e].vars : e \in 1..Len(sc)} \cup {"nosuch"}

FuncOnChain(sc, e, fname) ==
    \E j \in 1..Len(ChainOf(sc, e)) : fname \in DOMAIN sc[ChainOf(sc, e)[j]].funcs

(* C1.  && and || short-circuit: in every environment the interpreter      *)
(* reaches, for a left operand L that evaluates to a falsy value and a     *)
(* right operand R whose evaluation raises, L && R evaluates to false      *)
(* without raising, and for a truthy L, L || R evaluates to true without   *)
(* raising.                                                                *)
LeftOperands == {"0", "1", "(1 == 2)", "(1 == 1)", "\"\"", "\"a\"", "(2 - 2)"}

RaisingOperands == {"(1/0 == 1)", "nosuch", "(\"a\" - 1)"}

ShortCircuit ==
    Running =>
        \A L \in LeftOperands, R \in RaisingOperands :
            LET l == eval_expr(L, scopes, Top.env) IN
            /\ l.err = ""
            /\ ~truthy(l.v) => eval_expr(L \o " && " \o R, scopes, Top.env) = Val(BoolV(FALSE))
            /\ truthy(l.v) => eval_expr(L \o " || " \o R, scopes, Top.env) = Val(BoolV(TRUE))

(* the right operand of && was evaluated after a falsy left operand: its   *)
(* division by zero ended the run                                          *)
AndOperandRaised ==
    /\ src = Program(PAndSkip)
    /\ last.k = "print"
    /\ status = "error"
    /\ err.kind = "ZeroDivisionError"

(* C2.  Reading a name from any scope returns its innermost binding on the *)
(* scope's parent chain, and fails only when no scope on the chain binds   *)
(* the name.                                                               *)
ReadInnermost ==
    \A e \in 1..Len(scopes) : \A k \in VarNames(scopes) :
        EnvGet(scopes, e, k) = Innermost(scopes, e, k)

(* a read from a for body, through a block that binds nothing, of a name   *)
(* the root binds has failed                                               *)
ReadThroughEmptyFails ==
    /\ src = Program(PReadThroughBlock)
    /\ last.k = "print"
    /\ status = "error"
    /\ err.msg = "undefined variable x"
    /\ Has(scopes, 1, "x")

(* C3.  A declare binds the name in the current scope and changes nothing  *)
(* else; an assign overwrites the nearest binding on the chain and changes *)
(* nothing else, and binds in the current scope when the chain holds no    *)
(* binding.  declare x = 5; print(x); assign x = x + 1; print(x) prints 5  *)
(* then 6.                                                                 *)
AssignTarget ==
    IF last.is_decl \/ Holders(last.pre, last.env, last.name) = {}
    THEN last.env
    ELSE ChainOf(last.pre, last.env)[Min(Holders(last.pre, last.env, last.name))]

Assigned == last.k = "assign" /\ last.res.err = ""

DeclareAssignFrame ==
    /\ Assigned =>
        /\ Len(scopes) = Len(last.pre)
        /\ \A s \in 1..Len(scopes) :
            IF s = AssignTarget
            THEN /\ scopes[s].parent = last.pre[s].parent
                 /\ scopes[s].funcs = last.pre[s].funcs
                 /\ DOMAIN scopes[s].vars = DOMAIN last.pre[s].vars \cup {last.name}
                 /\ scopes[s].vars[last.name] = last.res.v
                 /\ \A x \in DOMAIN last.pre[s].vars \ {last.name} :
                        scopes[s].vars[x] = last.pre[s].vars[x]
            ELSE scopes[s] = last.pre[s]
    /\ (src = Program(PDeclareAssign) /\ Halted) => (status = "done" /\ out = <<"5", "6">>)

(* an assign from two scopes in has overwritten the binding of the scope   *)
(* between, which shadows the root's                                       *)
AssignedOuter ==
    /\ Assigned
    /\ ~last.is_decl
    /\ AssignTarget # last.env
    /\ AssignTarget # 1
    /\ Has(last.pre, 1, last.name)
    /\ scopes[AssignTarget].vars[last.name] # last.pre[AssignTarget].vars[last.name]

(* C4.  A call finds its function in the table of the scope the call       *)
(* statement runs in, and nowhere else: it fails with "function not        *)
(* defined" exactly when that table lacks the name.  The scope of a block  *)
(* and of a for iteration starts with an empty table, and an if branch     *)
(* runs in the scope of the if.  So a top-level function called from a for *)
(* body is not defined, and called from an if branch it is.                *)
NotDefined == status = "error" /\ err = [kind |-> "GoOutRuntimeError", msg |-> "function not defined"]

FunctionLookupNotChained ==
    /\ last.k = "call" => (NotDefined <=> last.fname \notin DOMAIN last.pre[last.env].funcs)
    /\ last.k \in {"block", "iter"} =>
            (scopes[Len(scopes)].funcs = <<>> /\ scopes[Len(scopes)].parent = last.env)
    /\ (last.k = "if" /\ status = "run") => Top.env = last.env
    /\ (src = Program(PCallInFor) /\ Halted) => (NotDefined /\ out = <<>>)
    /\ (src = Program(PCallInIf) /\ Halted) => (status = "done" /\ out = <<"1">>)

(* a call from a for body has failed, the function being defined in an     *)
(* enclosing scope                                                         *)
CallFromForFails ==
    /\ last.k = "call"
    /\ NotDefined
    /\ Top.of = "for"
    /\ FuncOnChain(scopes, last.env, last.fname)

(* C5.  A for statement binds its variable to start, start+1, ..., end-1   *)
(* in that order, each time in a fresh child of the enclosing scope, and   *)
(* runs the body max(0, end - start) times, the bounds being those         *)
(* evaluated before the first iteration whatever the body assigns.         *)
(* repeat<i>(0, 3) { print(i) } prints 0, 1, 2; with start = end nothing.  *)
Count(lo, hi) == IF hi > lo THEN hi - lo ELSE 0

Ascending(seen, lo) == \A j \in 1..Len(seen) : seen[j] = lo + j - 1

ForFrames == {j \in 1..Len(stack) : stack[j].k = "for"}

ForRange ==
    /\ last.k = "forexit" => (Len(last.seen) = Count(last.lo, last.hi) /\ Ascending(last.seen, last.lo))
    /\ \A j \in ForFrames :
            /\ Len(stack[j].seen) <= Count(stack[j].lo, stack[j].hi)
            /\ Ascending(stack[j].seen, stack[j].lo)
    /\ last.k = "iter" =>
            LET f == stack[Len(stack) - 1] IN
            /\ scopes = Append(last.pre,
                    [vars |-> [x \in {f.var} |-> IntV(f.seen[Len(f.seen)])],
                     parent |-> f.env, funcs |-> <<>>])
            /\ Top.env = Len(scopes)
            /\ f.env = last.env
    /\ (src = Program(PLoop) /\ Halted) => (status = "done" /\ out = <<"0", "1", "2">>)
    /\ (src = Program(PLoopAssign) /\ Halted) =>
            (status = "done" /\ out = <<"0", "1", "2", "0">>)

(* a loop whose body assigned to its variable and to the variable of its   *)
(* end bound has run to its end                                            *)
LoopRanOut ==
    /\ src = Program(PLoopAssign)
    /\ last.k = "forexit"
    /\ last.seen = <<0, 1, 2>>
    /\ scopes[1].vars["n"] = IntV(0)

(* C6.  A call evaluates its arguments in the caller's scope and runs the  *)
(* body in one fresh scope whose parent is the caller's scope, with the    *)
(* parameters bound positionally; in the body a name the frame does not    *)
(* bind reads as the caller's chain binds it; after the call the frame,    *)
(* with its parameters and declarations, is gone; a call with the wrong    *)
(* number of arguments fails before the body runs.                         *)
RECURSIVE ArgsBound(_, _, _, _, _, _)
ArgsBound(acc, sc, env, params, args, k) ==
    IF k > Len(params) THEN acc
    ELSE ArgsBound(Bind(acc, params[k], eval_expr(args[k], sc, env).v),
                   sc, env, params, args, k + 1)

CallFrame ==
    /\ (last.k = "call" /\ status = "run") =>
            LET f == last.pre[last.env].funcs[last.fname] IN
            /\ Len(f.params) = Len(last.args)
            /\ scopes[Len(scopes)] =
                    [vars |-> ArgsBound(<<>>, last.pre, last.env, f.params, last.args, 1),
                     parent |-> last.env, funcs |-> <<>>]
            /\ SubSeq(scopes, 1, Len(scopes) - 1) = last.pre
            /\ Top.env = Len(scopes)
    /\ (last.k = "call" /\ last.fname \in DOMAIN last.pre[last.env].funcs
          /\ Len(last.pre[last.env].funcs[last.fname].params) # Len(last.args)) =>
            (status = "error" /\ err.msg = "argument count mismatch" /\ scopes = last.pre)
    /\ (Running /\ Top.k = "run" /\ Top.of = "call") =>
            \A k \in VarNames(scopes) \ DOMAIN scopes[Top.env].vars :
                EnvGet(scopes, Top.env, k) = Innermost(scopes, scopes[Top.env].parent, k)
    /\ (last.k = "return" /\ last.of = "call") =>
            scopes = SubSeq(last.pre, 1, Len(last.pre) - 1)

(* the body of a function called from a block that binds nothing has read  *)
(* a name the root binds, and the read has failed                          *)
CallerReadFails ==
    /\ src = Program(PReadInCall)
    /\ last.k = "print"
    /\ Top.of = "call"
    /\ status = "error"
    /\ err.msg = "undefined variable x"
    /\ Has(scopes, 1, "x")

(* C7.  Every failure of the execution of a parsed program is a            *)
(* GoOutRuntimeError.                                                      *)
OnlyRuntimeErrors ==
    (status = "error" /\ last.k # "parse") => err.kind = "GoOutRuntimeError"

(* a subtraction from a string has ended the run with the host's          *)
(* TypeError                                                               *)
HostErrorLeaks ==
    /\ src = Program(PTypes)
    /\ status = "error"
    /\ last.k = "print"
    /\ err.kind = "TypeError"

(* C8.  An input statement binds its name in the current scope, whatever   *)
(* the enclosing scopes bind, and leaves them unchanged.                   *)
InputBinds ==
    last.k = "input" =>
        /\ status = "run"
        /\ Has(scopes, last.env, last.name)
        /\ \A s \in 1..Len(last.pre) : s # last.env => scopes[s] = last.pre[s]

(* an input statement the parser accepted has ended the run as an unknown  *)
(* statement, binding nothing                                              *)
InputUnknown ==
    /\ src = Program(PInput)
    /\ last.k = "input"
    /\ status = "error"
    /\ err.msg = "unknown statement type"
    /\ scopes = last.pre

(* C9.  parse_program fails with a syntax failure on a program with a      *)
(* block that is opened and not closed before the end marker.              *)
RECURSIVE OpenAtEnd(_, _, _)
OpenAtEnd(lines, k, depth) ==
    IF k > Len(lines) THEN depth
    ELSE LET l == lines[k] IN
         IF l.k = "split"
         THEN OpenAtEnd(<<l.rest>> \o SubSeq(lines, k + 1, Len(lines)), 1,
                        IF depth > 0 THEN depth - 1 ELSE 0)
         ELSE IF l.k = "close" THEN OpenAtEnd(lines, k + 1, IF depth > 0 THEN depth - 1 ELSE 0)
         ELSE IF l.k \in {"if", "else", "for", "def", "open"}
         THEN OpenAtEnd(lines, k + 1, depth + 1)
         ELSE OpenAtEnd(lines, k + 1, depth)

Unterminated(lines) == OpenAtEnd(lines, 1, 0) > 0

UnterminatedRejected ==
    (status # "init" /\ Unterminated(src)) =>
        (status = "error" /\ err.kind = "GoOutSyntaxError")

(* a program whose bare block is never closed has been parsed and run to   *)
(* its end                                                                 *)
UnclosedRuns ==
    /\ src = Program(PUnclosed)
    /\ Unterminated(src)
    /\ status = "done"
    /\ out = <<"1", "2">>

(* C10.  The execution of a parsed program ends, completing or failing:    *)
(* the depth of calls never exceeds the depth to which the program nests   *)
(* function definitions, and every run reaches its end.                    *)
Larger(a, b) == IF a >= b THEN a ELSE b

RECURSIVE DefDepth(_)
RECURSIVE MaxDefDepth(_, _)
DefDepth(s) ==
    CASE s.kind = "def" -> 1 + MaxDefDepth(s.body, 1)
      [] s.kind \in {"for", "block"} -> MaxDefDepth(s.body, 1)
      [] s.kind = "if" -> Larger(MaxDefDepth(s.then_body, 1), MaxDefDepth(s.else_body, 1))
      [] OTHER -> 0

MaxDefDepth(stmts, k) ==
    IF k > Len(stmts) THEN 0
    ELSE Larger(DefDepth(stmts[k]), MaxDefDepth(stmts, k + 1))

CallDepth == Cardinality({j \in 1..Len(stack) : stack[j].k = "run" /\ stack[j].of = "call"})

CallDepthBounded == Len(stack) > 0 => CallDepth <= MaxDefDepth(stack[1].stmts, 1)

Terminates == []CallDepthBounded /\ <>Halted

(* a function has called itself from its body and was not found there,     *)
(* though its caller's scope defines it                                    *)
SelfCallFails ==
    /\ last.k = "call"
    /\ NotDefined
    /\ Top.of = "call"
    /\ last.fname \in DOMAIN scopes[scopes[last.env].parent].funcs

=============================================================================
